---- MODULE Spec2Model ----
(***************************************************************************)
(* A model of apidoc's concurrent extraction pipeline (package input:      *)
(* Parse, buildBlock, parseOptions, parseFile, parseBlock) and of the      *)
(* group-keyed document builder (package parser: Parse, parse, getDoc).    *)
(*                                                                         *)
(* Byte strings are tuples of one-character strings, so that               *)
(* bytes.HasPrefix and bytes.IndexByte are computed on the content.  A     *)
(* file path is a positive number; the empty path "" is 0.                 *)
(*                                                                         *)
(* A goroutine's steps that touch nothing shared are joined to the next    *)
(* step that does: a goroutine's wg.Done() is part of its last step.       *)
(***************************************************************************)
EXTENDS Integers, Sequences, FiniteSets, Bags, TLC

\* ------------------------------------------------------------------ bounds
MaxOpts == 2        \* options handed to input.Parse
MaxFiles == 2       \* paths over all options
MaxBlocks == 2      \* comment blocks over all files
MaxLine == 4        \* bytes of a line handed to filterSymbols
MaxData == 6        \* bytes of a buffer handed to a Blocker
MaxToks == 6        \* tokens of a source file handed to lang.Parse
MaxItems == 2       \* items, and enums, of a request
MaxRequests == 2    \* requests, and responses, of a callback
MaxDepth == 2       \* objects nested in a param tree
MaxNames == 3       \* names of a path looked up in a param tree
MaxPaths == 2       \* paths on the command line

\* ------------------------------------------------------ program constants
ArrayLen == 5       \* elements of a synthesized array
ChanCap == 500      \* make(chan block, 500)

VARIABLES
    prog,           \* the entry point that runs: "input" (input.Parse) or "parser" (parser.Parse)
    \* ---- package input
    opts,           \* the opt ...*Options argument: the options not yet handed to parseOptions
    files,          \* path -> [ok, ret]: what readFile and lang.Parse give for the path
    pcMain,         \* position of the goroutine that called input.Parse
    retErr,         \* Field of the error Parse returned, or NoErr
    retDoc,         \* "none" before Parse returns, then "nil" or "doc"
    chanMade,       \* make(chan block, 500) has run
    chan,           \* the blocks buffered in the channel, oldest first
    closeCount,     \* how many times close(data) has run
    sendOnClosed,   \* a send happened on the closed channel (a panic in Go)
    pcCoord,        \* position of the goroutine buildBlock starts
    coordNext,      \* the path the next goroutine of parseOptions gets
    coordInOpt,     \* how many paths of the option at hand parseOptions has started
    wgScan,         \* counter of buildBlock's WaitGroup
    fstate,         \* path -> position of that path's parseFile goroutine
    pending,        \* path -> lines of ret the range loop has not visited yet
    received,       \* bag of the blocks the range loop of Parse has received
    bstate,         \* block -> position of its parseBlock goroutine
    wgBlk,          \* counter of Parse's WaitGroup
    doc,            \* the Document: [made, meta, apis]
    handler,        \* bag of the records handed to h.Error
    sanitizeCount,  \* how many times doc.Sanitize has run
    \* ---- package parser
    pcP,            \* position of the goroutine that called parser.Parse
    precv,          \* how many blocks the range loop of parser.Parse has received
    pwg,            \* counter of parser.Parse's WaitGroup
    gor,            \* goroutine -> [pc, block, kind, first, group, key, found, d, err]
    docs,           \* p.docs: group name -> document object
    docObjs,        \* every &doc{} created, in order: [group, apis, infos]
    locker,         \* the goroutine holding p.locker, or 0
    syntaxlog,      \* bag of the [file, line] syntaxlog.Println printed
    stdoutLines,    \* how many lines were written to standard output
    retP,           \* "none" before parser.Parse returns, then the group names of its result
    \* ---- a function called on its own
    call,           \* the function and its arguments: [fn, ...], or NoCall
    result,         \* NoResult before the call returns, then [done, ...] with what it returns
    \* ---- the apidoc command
    cmd             \* [pc, flags, args, dflt, test, paths, index, msgs, written, parsed, term]

inputVars == <<opts, files, pcMain, retErr, retDoc, chanMade, chan, closeCount,
               sendOnClosed, pcCoord, coordNext, coordInOpt, wgScan, fstate, pending,
               received, bstate, wgBlk, doc, handler, sanitizeCount>>

parserVars == <<pcP, precv, pwg, gor, docs, docObjs, locker, syntaxlog, stdoutLines, retP>>

callVars == <<call, result>>

\* What the actions of package input, of package parser, and a call, leave alone.
nonInputVars == <<prog, parserVars, callVars, cmd>>
nonParserVars == <<prog, inputVars, callVars, cmd>>
nonCallVars == <<prog, inputVars, parserVars, cmd>>
nonCmdVars == <<prog, inputVars, parserVars, callVars>>

vars == <<prog, inputVars, parserVars, callVars, cmd>>

NoCall == [fn |-> "none"]
NoResult == [done |-> FALSE]
NoCmd == [pc |-> "idle"]

\* ------------------------------------------------------------ byte strings
HasPrefix(s, p) == Len(s) >= Len(p) /\ SubSeq(s, 1, Len(p)) = p

apidocBegin == <<"<", "a", "p", "i", "d", "o", "c">>
apiBegin == <<"<", "a", "p", "i">>

APIBlock == apiBegin \o <<">">>
APIDocBlock == apidocBegin \o <<">">>
OtherBlock == <<"T", "O", "D", "O">>

\* Contents of a comment block: a metadata block, an API block, an unrelated comment.
DataSet == {APIDocBlock, APIBlock, OtherBlock}

Digits == <<"0", "1", "2", "3", "4", "5", "6", "7", "8", "9">>

RECURSIVE Itoa(_)
Itoa(n) == IF n < 10 THEN <<Digits[n + 1]>> ELSE Itoa(n \div 10) \o <<Digits[(n % 10) + 1]>>

NoErr == <<>>
OptField(index) == <<"o", "p", "t", "[">> \o Itoa(index) \o <<"]">>

\* ------------------------------------------------------------------ inputs
\* The Field of the error a failing Options.Sanitize returns.
SanitizeErrField == <<"d", "i", "r">>

\* An option: nil, or one whose Sanitize fails, or one holding n paths.
NilOpt == [kind |-> "nil", ok |-> FALSE, n |-> 0]
OptionSet == {NilOpt} \cup {[kind |-> "opt", ok |-> FALSE, n |-> 0]}
                \cup {[kind |-> "opt", ok |-> TRUE, n |-> k] : k \in 0..MaxFiles}

RECURSIVE SumN(_)
SumN(os) == IF os = <<>> THEN 0 ELSE Head(os).n + SumN(Tail(os))

OptsSet == {os \in UNION {[1..k -> OptionSet] : k \in 0..MaxOpts} : SumN(os) <= MaxFiles}

\* Paths are numbered in the order parseOptions meets them.
AllPaths == DOMAIN files

\* lang.Parse gives a map from the line a block begins at to its content; the
\* blocks of a file begin at lines 1..n.
RetSet(data) == UNION {[1..k -> data] : k \in 0..MaxBlocks}
FileSet(data) == {[ok |-> FALSE, ret |-> <<>>]} \cup {[ok |-> TRUE, ret |-> r] : r \in RetSet(data)}

RECURSIVE TotalBlocks(_, _)
TotalBlocks(fs, n) == IF n = 0 THEN 0 ELSE Len(fs[n].ret) + TotalBlocks(fs, n - 1)

Block(p, l) == [File |-> p, Line |-> l, Data |-> files[p].ret[l]]
BlocksOf(p) == {Block(p, l) : l \in DOMAIN files[p].ret}
Produced == UNION {BlocksOf(p) : p \in AllPaths}
BlockId(b) == [File |-> b.File, Line |-> b.Line]

\* message.WithError(file, "", line, err) as handed to h.Error.
ErrRecord(file, line, err) == [file |-> file, field |-> <<>>, line |-> line, err |-> err]

\* ----------------------------------------------------------- package input
\* buildBlock's checks of opt (lines 84-98): the Field of the error it returns.
FirstBad(os) == LET bad == {i \in 1..Len(os) : os[i].kind = "nil" \/ ~os[i].ok}
                IN  IF bad = {} THEN 0 ELSE CHOOSE i \in bad : \A j \in bad : i <= j

BuildErr(os) ==
    IF Len(os) = 0 THEN <<"o", "p", "t">>
    ELSE IF FirstBad(os) = 0 THEN NoErr
    ELSE IF os[FirstBad(os)].kind = "nil" THEN OptField(FirstBad(os) - 1)
    ELSE OptField(FirstBad(os) - 1) \o <<".">> \o SanitizeErrField

\* A buildBlock that makes the channel and starts its goroutine before it checks opt.
BuildBlockEager ==
    /\ chanMade' = TRUE
    /\ pcCoord' = "spawn"

\* buildBlock (lines 83-113): the channel and the goroutine exist only when opt is valid.
BuildBlock ==
    /\ chanMade' = (BuildErr(opts) = NoErr)
    /\ pcCoord' = IF BuildErr(opts) = NoErr THEN "spawn" ELSE "none"

\* Parse, lines 38-44: buildBlock, the return on its error, doc.New().
ParseStart ==
    /\ prog = "input" /\ pcMain = "start"
    /\ BuildBlock
    /\ retErr' = BuildErr(opts)
    /\ retDoc' = IF BuildErr(opts) = NoErr THEN "none" ELSE "nil"
    /\ pcMain' = IF BuildErr(opts) = NoErr THEN "range" ELSE "failed"
    /\ doc' = IF BuildErr(opts) = NoErr THEN [doc EXCEPT !.made = TRUE] ELSE doc
    /\ UNCHANGED <<nonInputVars, opts, files, chan, closeCount, sendOnClosed, coordNext,
                   coordInOpt, wgScan, fstate, pending, received, bstate, wgBlk, handler,
                   sanitizeCount>>

\* parseOptions (lines 116-124), one path of the option at hand: wg.Add(1), then
\* the goroutine.
CoordSpawn ==
    /\ pcCoord = "spawn" /\ opts # <<>> /\ coordInOpt < Head(opts).n
    /\ wgScan' = wgScan + 1
    /\ fstate' = [fstate EXCEPT ![coordNext] = "read"]
    /\ coordNext' = coordNext + 1
    /\ coordInOpt' = coordInOpt + 1
    /\ UNCHANGED <<nonInputVars, opts, files, pcMain, retErr, retDoc, chanMade, chan,
                   closeCount, sendOnClosed, pcCoord, pending, received, bstate, wgBlk, doc,
                   handler, sanitizeCount>>

\* buildBlock's goroutine, lines 104-106: parseOptions returns and the loop takes
\* the next option.
CoordNextOpt ==
    /\ pcCoord = "spawn" /\ opts # <<>> /\ coordInOpt = Head(opts).n
    /\ opts' = Tail(opts)
    /\ coordInOpt' = 0
    /\ UNCHANGED <<nonInputVars, files, pcMain, retErr, retDoc, chanMade, chan, closeCount,
                   sendOnClosed, pcCoord, coordNext, wgScan, fstate, pending, received,
                   bstate, wgBlk, doc, handler, sanitizeCount>>

\* A buildBlock whose goroutine does not wait for the scans before close(data).
ScansNotAwaited == TRUE

\* A wg.Wait() that never returns once a file could not be read, as when that
\* file's goroutine ended without wg.Done().
ScansJoinedIfAllRead == wgScan = 0 /\ \A p \in DOMAIN files : files[p].ok

\* buildBlock's goroutine, line 107: wg.Wait() returns.
ScansJoined == wgScan = 0

\* buildBlock's goroutine, lines 107-109: wg.Wait() after the loop over opt, then
\* close(data).
CoordWaitClose ==
    /\ pcCoord = "spawn" /\ opts = <<>>
    /\ ScansJoined
    /\ closeCount' = closeCount + 1
    /\ pcCoord' = "done"
    /\ UNCHANGED <<nonInputVars, opts, files, pcMain, retErr, retDoc, chanMade, chan,
                   sendOnClosed, coordNext, coordInOpt, wgScan, fstate, pending, received,
                   bstate, wgBlk, doc, handler, sanitizeCount>>

\* A parseFile that reports a read failure without the path.
ReadErrNoPath(p) == ErrRecord(0, 0, "io")

\* parseFile, line 132: the record of a file that cannot be read or decoded.
ReadErrRecord(p) == ErrRecord(p, 0, "io")

\* parseFile, lines 130-136, in the goroutine of parseOptions: readFile, the report
\* of its error, lang.Parse.  The goroutine ends, with wg.Done(), when the file
\* cannot be read or holds no block.
ReadFile(p) ==
    /\ fstate[p] = "read"
    /\ IF files[p].ok
       THEN /\ pending' = [pending EXCEPT ![p] = DOMAIN files[p].ret]
            /\ UNCHANGED handler
       ELSE /\ handler' = handler (+) SetToBag({ReadErrRecord(p)})
            /\ UNCHANGED pending
    /\ IF files[p].ok /\ files[p].ret # <<>>
       THEN fstate' = [fstate EXCEPT ![p] = "send"] /\ UNCHANGED wgScan
       ELSE fstate' = [fstate EXCEPT ![p] = "done"] /\ wgScan' = wgScan - 1
    /\ UNCHANGED <<nonInputVars, opts, files, pcMain, retErr, retDoc, chanMade, chan,
                   closeCount, sendOnClosed, pcCoord, coordNext, coordInOpt, received,
                   bstate, wgBlk, doc, sanitizeCount>>

\* A channel without capacity limit.
ChanUnbounded == TRUE

\* make(chan block, 500), line 100: a send goes through while fewer than 500
\* blocks are buffered.
ChanHasRoom == Len(chan) < ChanCap

\* parseFile, lines 137-143: one iteration of the range over the map lang.Parse
\* returned.  Go visits the entries of a map in an unspecified order, so any line
\* not yet visited may be next.  A send blocks while the channel is full.  After
\* the last entry parseFile returns and the goroutine calls wg.Done().
SendBlock(p, l) ==
    /\ fstate[p] = "send" /\ l \in pending[p]
    /\ closeCount > 0 \/ ChanHasRoom
    /\ IF closeCount > 0
       THEN sendOnClosed' = TRUE /\ UNCHANGED chan
       ELSE chan' = Append(chan, Block(p, l)) /\ UNCHANGED sendOnClosed
    /\ pending' = [pending EXCEPT ![p] = @ \ {l}]
    /\ IF pending[p] = {l}
       THEN fstate' = [fstate EXCEPT ![p] = "done"] /\ wgScan' = wgScan - 1
       ELSE UNCHANGED <<fstate, wgScan>>
    /\ UNCHANGED <<nonInputVars, opts, files, pcMain, retErr, retDoc, chanMade, closeCount,
                   pcCoord, coordNext, coordInOpt, received, bstate, wgBlk, doc, handler,
                   sanitizeCount>>

\* Parse, lines 46-52: one iteration of the range over the channel: wg.Add(1) and
\* the goroutine that runs parseBlock on the block received.
MainRecv ==
    /\ pcMain = "range" /\ chan # <<>>
    /\ chan' = Tail(chan)
    /\ received' = received (+) SetToBag({Head(chan)})
    /\ wgBlk' = wgBlk + 1
    /\ bstate' = (Head(chan) :> "run") @@ bstate
    /\ UNCHANGED <<nonInputVars, opts, files, pcMain, retErr, retDoc, chanMade, closeCount,
                   sendOnClosed, pcCoord, coordNext, coordInOpt, wgScan, fstate, pending,
                   doc, handler, sanitizeCount>>

\* A range that ends as soon as the channel is empty, closed or not.
RangeOverWhenEmpty == chan = <<>>

\* Parse, line 46: a receive from a closed, empty channel ends the range.
RangeOver == chan = <<>> /\ closeCount > 0

\* Parse, line 46: the range over the channel ends.
MainRangeEnd ==
    /\ pcMain = "range" /\ RangeOver
    /\ pcMain' = "wait"
    /\ UNCHANGED <<nonInputVars, opts, files, retErr, retDoc, chanMade, chan, closeCount,
                   sendOnClosed, pcCoord, coordNext, coordInOpt, wgScan, fstate, pending,
                   received, bstate, wgBlk, doc, handler, sanitizeCount>>

\* A Parse that does not wait for the block goroutines before Sanitize.
BlocksNotAwaited == TRUE

\* Parse, line 54: wg.Wait() returns.
BlocksJoined == wgBlk = 0

\* Parse, lines 54-60: wg.Wait(), doc.Sanitize(), the report of its error,
\* return doc, nil.
MainWaitSanitize ==
    /\ pcMain = "wait"
    /\ BlocksJoined
    /\ sanitizeCount' = sanitizeCount + 1
    /\ \E ok \in BOOLEAN :
          handler' = IF ok THEN handler
                     ELSE handler (+) SetToBag({ErrRecord(0, 0, "sanitize")})
    /\ retDoc' = "doc"
    /\ pcMain' = "done"
    /\ UNCHANGED <<nonInputVars, opts, files, retErr, chanMade, chan, closeCount,
                   sendOnClosed, pcCoord, coordNext, coordInOpt, wgScan, fstate, pending,
                   received, bstate, wgBlk, doc>>

\* doc.Doc.FromXML on a metadata block: the metadata is set only when the block
\* deserializes without error.
DocFromXML(d, b, ok) == IF ok THEN [d EXCEPT !.meta = @ \cup {BlockId(b)}] ELSE d

\* doc.Doc.NewAPI(file, line).FromXML(data): the entry is validated while it is
\* deserialized and is kept in the Document only when that succeeds.
NewAPIFromXML(d, b, ok) == IF ok THEN [d EXCEPT !.apis = @ \cup {BlockId(b)}] ELSE d

\* A parseBlock whose switch tests the API marker first.
BlockKindAPIFirst(data) ==
    IF HasPrefix(data, apiBegin) THEN "api"
    ELSE IF HasPrefix(data, apidocBegin) THEN "apidoc"
    ELSE "none"

\* parseBlock, lines 70-75: which branch of the switch runs.
BlockKind(data) ==
    IF HasPrefix(data, apidocBegin) THEN "apidoc"
    ELSE IF HasPrefix(data, apiBegin) THEN "api"
    ELSE "none"

\* A parseBlock that reports the error without the block's line.
BlockErrNoLine(b, err) == ErrRecord(b.File, 0, err)

\* parseBlock, line 77: the record handed to h.Error, whatever err is.
BlockErrRecord(b, err) == ErrRecord(b.File, b.Line, err)

\* parseBlock (lines 68-78) and wg.Done() in the goroutine of Parse's line 48.  ok
\* is whether the deserialization of the block succeeds.
ParseBlock(b) ==
    /\ b \in DOMAIN bstate /\ bstate[b] = "run"
    /\ \E ok \in BOOLEAN :
          LET kind == BlockKind(b.Data)
              err == IF kind = "none" \/ ok THEN "nil" ELSE "syntax"
          IN  /\ doc' = CASE kind = "apidoc" -> DocFromXML(doc, b, ok)
                          [] kind = "api" -> NewAPIFromXML(doc, b, ok)
                          [] OTHER -> doc
              /\ handler' = handler (+) SetToBag({BlockErrRecord(b, err)})
    /\ bstate' = [bstate EXCEPT ![b] = "done"]
    /\ wgBlk' = wgBlk - 1
    /\ UNCHANGED <<nonInputVars, opts, files, pcMain, retErr, retDoc, chanMade, chan,
                   closeCount, sendOnClosed, pcCoord, coordNext, coordInOpt, wgScan, fstate,
                   pending, received, sanitizeCount>>

NextInput ==
    \/ ParseStart
    \/ CoordSpawn
    \/ CoordNextOpt
    \/ CoordWaitClose
    \/ \E p \in AllPaths : ReadFile(p)
    \/ \E p \in AllPaths : \E l \in pending[p] : SendBlock(p, l)
    \/ MainRecv
    \/ MainRangeEnd
    \/ MainWaitSanitize
    \/ \E b \in DOMAIN bstate : ParseBlock(b)

\* ---------------------------------------------------------- package parser
\* vars.API and vars.APIDoc, the tags that open an API block and a metadata block.
\* Package vars is not among the files at hand; the two tags are taken to be
\* mutually exclusive, neither one a prefix of the other.
apiPrefix == <<"@", "a", "p", "i", " ">>
apiDocPrefix == <<"@", "a", "p", "i", "d", "o", "c", " ">>

\* vars.DefaultGroupName.
DefaultGroupName == "index"

\* The group a block's YAML names; "" when it names none.
GroupSet == {"", DefaultGroupName, "admin"}

\* Blocks on the channel input.Parse returns: their first line ends with a newline.
PAPIBlock == apiPrefix \o <<"G", "\n", "k">>
PAPIDocBlock == apiDocPrefix \o <<"T", "\n", "k">>
POtherBlock == <<"T", "O", "D", "O", "\n">>
PDataSet == {PAPIBlock, PAPIDocBlock, POtherBlock}

\* bytes.IndexByte: the index, from 0, of the first c in s, or -1.
IndexByte(s, c) == LET at == {i \in 1..Len(s) : s[i] = c}
                   IN  IF at = {} THEN -1 ELSE (CHOOSE i \in at : \A j \in at : i <= j) - 1

NoGor == [pc |-> "none", block |-> <<>>, kind |-> "none", first |-> <<>>, group |-> "",
          key |-> "", found |-> FALSE, d |-> 0, err |-> "nil"]

Goroutines == DOMAIN gor

\* parser.Parse, lines 262-271: one iteration of the range over the channel of
\* input.Parse: wg.Add(1) and the goroutine.  The block is whatever the channel gives.
PRecv ==
    /\ prog = "parser" /\ pcP = "range" /\ precv < MaxBlocks
    /\ \E data \in PDataSet :
          gor' = gor @@ ((precv + 1) :> [NoGor EXCEPT !.pc = "start",
                            !.block = [File |-> 1, Line |-> precv + 1, Data |-> data]])
    /\ precv' = precv + 1
    /\ pwg' = pwg + 1
    /\ UNCHANGED <<nonParserVars, pcP, docs, docObjs, locker, syntaxlog, stdoutLines, retP>>

\* parser.Parse, line 262: the channel is closed and the range ends.
PRangeEnd ==
    /\ prog = "parser" /\ pcP = "range"
    /\ pcP' = "wait"
    /\ UNCHANGED <<nonParserVars, precv, pwg, gor, docs, docObjs, locker, syntaxlog,
                   stdoutLines, retP>>

\* parser.Parse, lines 272-279: wg.Wait(), then the result, one entry per group of p.docs.
PWaitReturn ==
    /\ pcP = "wait" /\ pwg = 0
    /\ retP' = DOMAIN docs
    /\ pcP' = "done"
    /\ UNCHANGED <<nonParserVars, precv, pwg, gor, docs, docObjs, locker, syntaxlog,
                   stdoutLines>>

\* parser.parse, lines 283 and 296: the branch taken: the API tag is tested first.
ParseKind(data) ==
    IF HasPrefix(data, apiPrefix) THEN "api"
    ELSE IF HasPrefix(data, apiDocPrefix) THEN "info"
    ELSE "none"

\* parser.parse (lines 282-310) up to its call of getDoc, in the goroutine of
\* parser.Parse's line 264.  yok is whether yaml.Unmarshal succeeds and grp the group
\* it finds.  On an error the goroutine prints it to syntaxlog (line 267) and ends;
\* a block with neither tag ends it with no error.
PParse(g) ==
    /\ gor[g].pc = "start"
    /\ LET data == gor[g].block.Data
           kind == ParseKind(data)
           index == IndexByte(data, "\n")
       IN  IF kind = "none"
           THEN /\ gor' = [gor EXCEPT ![g].pc = "done"]
                /\ pwg' = pwg - 1
                /\ UNCHANGED syntaxlog
           ELSE IF index < 0
           THEN /\ gor' = [gor EXCEPT ![g].pc = "panic"]
                /\ UNCHANGED <<pwg, syntaxlog>>
           ELSE \E yok \in BOOLEAN, grp \in GroupSet :
                   IF yok
                   THEN /\ gor' = [gor EXCEPT ![g].pc = "lock", ![g].kind = kind,
                                              ![g].first = SubSeq(data, 1, index),
                                              ![g].group = grp]
                        /\ UNCHANGED <<pwg, syntaxlog>>
                   ELSE /\ gor' = [gor EXCEPT ![g].pc = "done", ![g].kind = kind,
                                              ![g].err = "yaml"]
                        /\ pwg' = pwg - 1
                        /\ syntaxlog' = syntaxlog (+) SetToBag({[file |-> gor[g].block.File,
                                                                 line |-> gor[g].block.Line]})
    /\ UNCHANGED <<nonParserVars, pcP, precv, docs, docObjs, locker, stdoutLines, retP>>

\* getDoc, lines 233-235: an empty group name stands for the default group.
GroupKey(group) == IF group = "" THEN DefaultGroupName ELSE group

\* A getDoc without the lock.
LockerIgnored == TRUE

\* getDoc, line 237: p.locker.Lock() returns only while no goroutine holds the lock.
LockerFree == locker = 0

\* getDoc, lines 233-239: the group's name, p.locker.Lock(), the lookup in p.docs.
GetDocLock(g) ==
    /\ gor[g].pc = "lock"
    /\ LockerFree
    /\ locker' = g
    /\ gor' = [gor EXCEPT ![g].pc = "create",
                          ![g].key = GroupKey(gor[g].group),
                          ![g].found = GroupKey(gor[g].group) \in DOMAIN docs,
                          ![g].d = IF GroupKey(gor[g].group) \in DOMAIN docs
                                   THEN docs[GroupKey(gor[g].group)] ELSE 0]
    /\ UNCHANGED <<nonParserVars, pcP, precv, pwg, docs, docObjs, syntaxlog, stdoutLines, retP>>

\* getDoc, lines 241-250: the document made and stored when none was found,
\* fmt.Println, the deferred Unlock, return d.
GetDocCreate(g) ==
    /\ gor[g].pc = "create"
    /\ IF gor[g].found
       THEN /\ gor' = [gor EXCEPT ![g].pc = "entry"]
            /\ UNCHANGED <<docs, docObjs>>
       ELSE /\ docObjs' = Append(docObjs, [group |-> gor[g].key, apis |-> {}, infos |-> {}])
            /\ docs' = (gor[g].key :> (Len(docObjs) + 1)) @@ docs
            /\ gor' = [gor EXCEPT ![g].pc = "entry", ![g].d = Len(docObjs) + 1]
    /\ stdoutLines' = stdoutLines + 1
    /\ locker' = 0
    /\ UNCHANGED <<nonParserVars, pcP, precv, pwg, syntaxlog, retP>>

\* doc.parseAPI and doc.parseInfo: the entry is checked and is added to the
\* document, under the document's lock, only when the check succeeds.
DocParse(objs, d, kind, entry, ok) ==
    IF ~ok THEN objs
    ELSE IF kind = "api" THEN [objs EXCEPT ![d].apis = @ \cup {entry}]
    ELSE [objs EXCEPT ![d].infos = @ \cup {entry}]

\* parser.parse, lines 293 and 306, and parser.Parse, lines 265-269: parseAPI or
\* parseInfo on the document getDoc returned, the error printed to syntaxlog,
\* wg.Done().
PEntry(g) ==
    /\ gor[g].pc = "entry"
    /\ \E ok \in BOOLEAN :
          /\ docObjs' = DocParse(docObjs, gor[g].d, gor[g].kind,
                                 [id |-> BlockId(gor[g].block), first |-> gor[g].first], ok)
          /\ syntaxlog' = IF ok THEN syntaxlog
                          ELSE syntaxlog (+) SetToBag({[file |-> gor[g].block.File,
                                                        line |-> gor[g].block.Line]})
          /\ gor' = [gor EXCEPT ![g].pc = "done", ![g].err = IF ok THEN "nil" ELSE "syntax"]
    /\ pwg' = pwg - 1
    /\ UNCHANGED <<nonParserVars, pcP, precv, docs, locker, stdoutLines, retP>>

NextParser ==
    \/ PRecv
    \/ PRangeEnd
    \/ PWaitReturn
    \/ \E g \in Goroutines : PParse(g)
    \/ \E g \in Goroutines : GetDocLock(g)
    \/ \E g \in Goroutines : GetDocCreate(g)
    \/ \E g \in Goroutines : PEntry(g)

\* ------------------------------------------------------------ package lang

\* unicode.IsSpace on the bytes at hand.
IsSpace(c) == c \in {" ", "\t", "\n"}

\* strings.IndexByte(charset, v) >= 0.
InCharset(charset, v) == \E i \in 1..Len(charset) : charset[i] = v

\* A filterSymbols that drops the space after the symbol as well.
filterSymbolsFromDropSpace(line, charset, index) ==
    LET Skip(i) == i <= Len(line) /\ IsSpace(line[i]) /\ line[i] # "\n"
        at == CHOOSE i \in index..(Len(line) + 1) :
                 ~Skip(i) /\ \A j \in index..(i - 1) : Skip(j)
    IN  IF at > Len(line) \/ ~InCharset(charset, line[at]) THEN line
        ELSE IF Len(line) > at /\ IsSpace(line[at + 1])
        THEN IF line[at + 1] = "\n" THEN <<"\n">> ELSE SubSeq(line, at + 2, Len(line))
        ELSE SubSeq(line, at + 1, Len(line))

\* filterSymbols, lines 169-189: the loop over line from the byte at index (from 1).
RECURSIVE filterSymbolsFrom(_, _, _)
filterSymbolsFrom(line, charset, index) ==
    IF index > Len(line) THEN line
    ELSE IF IsSpace(line[index]) /\ line[index] # "\n"
    THEN filterSymbolsFrom(line, charset, index + 1)
    ELSE IF ~InCharset(charset, line[index]) THEN line
    ELSE IF Len(line) > index /\ IsSpace(line[index + 1])
    THEN IF line[index + 1] = "\n" THEN <<"\n">> ELSE SubSeq(line, index + 1, Len(line))
    ELSE line

\* filterSymbols, lines 162-190.
filterSymbols(line, charset) ==
    IF Len(charset) = 0 THEN line ELSE filterSymbolsFrom(line, charset, 1)

\* The lines and the charsets filterSymbols is called on.
LineChars == {" ", "*", "a", "\n"}
LineSet == UNION {[1..k -> LineChars] : k \in 0..MaxLine}
CharsetSet == {<<>>, <<"*">>, <<"a", "*">>}

CallFilterSymbols ==
    /\ prog = "call" /\ call.fn = "filterSymbols" /\ ~result.done
    /\ result' = [done |-> TRUE, line |-> filterSymbols(call.line, call.charset)]
    /\ UNCHANGED <<nonCallVars, call>>

\* The lexer: l.data is data and l.pos is pos, counted from 0, so that the byte at
\* l.pos is data[pos + 1].  lexer.atEOF.
AtEOF(data, pos) == pos >= Len(data)

\* lexer.match: whether word is at pos; the caller moves pos past it when it is
\* (endMComments, line 145, finds the End token at l.pos - len(b.End)).
Match(data, pos, word) ==
    pos + Len(word) <= Len(data) /\ SubSeq(data, pos + 1, pos + Len(word)) = word

\* lexer.skipSpace: pos moved past the spaces; skipNL is whether a newline counts
\* as one.
RECURSIVE SkipSpace(_, _, _)
SkipSpace(data, pos, skipNL) ==
    IF ~AtEOF(data, pos) /\ IsSpace(data[pos + 1]) /\ (skipNL \/ data[pos + 1] # "\n")
    THEN SkipSpace(data, pos + 1, skipNL)
    ELSE pos

\* The rules of a language: two styles of single-line comment, a multi-line
\* comment whose lines are filtered, a string.
SlashComment == [Type |-> "SComment", Begin |-> <<"/", "/">>, End |-> <<>>, Escape |-> <<>>]
HashComment == [Type |-> "SComment", Begin |-> <<"#">>, End |-> <<>>, Escape |-> <<>>]

\* endSComments, lines 106-119: one line read byte by byte.  Reading l.data[l.pos]
\* at the end of the buffer is an index out of range: a panic.
RECURSIVE ReadLine(_, _)
ReadLine(data, pos) ==
    IF pos >= Len(data) THEN [st |-> "panic", pos |-> pos]
    ELSE IF AtEOF(data, pos + 1) THEN [st |-> "eof", pos |-> pos + 1]
    ELSE IF data[pos + 1] = "\n" THEN [st |-> "line", pos |-> pos + 1]
    ELSE ReadLine(data, pos + 1)

\* An endSComments that returns after the first line.
SCommentsFirstLine(data, pos, lines, b, skipNL) ==
    LET rd == ReadLine(data, pos)
    IN  IF rd.st = "panic" THEN [st |-> "panic", lines |-> lines, pos |-> pos]
        ELSE [st |-> "ok", lines |-> Append(lines, SubSeq(data, pos + 1, rd.pos)),
              pos |-> rd.pos]

\* endSComments, lines 104-125: the loop over the lines, from the line at pos.
RECURSIVE SCommentsLoop(_, _, _, _, _)
SCommentsLoop(data, pos, lines, b, skipNL) ==
    LET rd == ReadLine(data, pos)
        read == Append(lines, filterSymbols(SubSeq(data, pos + 1, rd.pos), b.Escape))
        next == SkipSpace(data, rd.pos, skipNL)
    IN  IF rd.st = "panic" THEN [st |-> "panic", lines |-> lines, pos |-> pos]
        ELSE IF rd.st = "eof"
        THEN [st |-> "ok", lines |-> Append(lines, SubSeq(data, pos + 1, rd.pos)), pos |-> rd.pos]
        ELSE IF Match(data, next, b.Begin)
        THEN SCommentsLoop(data, next + Len(b.Begin), read, b, skipNL)
        ELSE [st |-> "ok", lines |-> read, pos |-> next]

\* endSComments, lines 100-132: the lines, found, and l.pos when it returns.
endSComments(data, pos, b, skipNL) ==
    LET r == SCommentsLoop(data, pos, <<>>, b, skipNL)
    IN  IF r.st = "panic" THEN [done |-> TRUE, panic |-> TRUE]
        ELSE [done |-> TRUE, panic |-> FALSE, lines |-> r.lines, ok |-> TRUE,
              pos |-> IF Len(r.lines) > 0 THEN r.pos - 1 ELSE r.pos]

CComment == [Type |-> "MComment", Begin |-> <<"/", "*">>, End |-> <<"*", "/">>,
             Escape |-> <<"*">>]

\* An endMComments that returns the lines it has read when the buffer ends
\* before the End token.
RECURSIVE MCommentsLoopPartial(_, _, _, _, _)
MCommentsLoopPartial(data, pos, start, lines, b) ==
    IF AtEOF(data, pos) THEN [done |-> TRUE, panic |-> FALSE, lines |-> lines, ok |-> FALSE,
                              pos |-> pos]
    ELSE IF Match(data, pos, b.End)
    THEN [done |-> TRUE, panic |-> FALSE, ok |-> TRUE, pos |-> pos + Len(b.End),
          lines |-> IF pos > start
                    THEN Append(lines, filterSymbols(SubSeq(data, start + 1, pos), b.Escape))
                    ELSE lines]
    ELSE IF data[pos + 1] = "\n"
    THEN MCommentsLoopPartial(data, pos + 1, pos + 1,
                       Append(lines, filterSymbols(SubSeq(data, start + 1, pos + 1), b.Escape)), b)
    ELSE MCommentsLoopPartial(data, pos + 1, start, lines, b)

\* endMComments, lines 140-157: the loop over the bytes, from the byte at pos;
\* start is where the line at hand begins.
RECURSIVE MCommentsLoop(_, _, _, _, _)
MCommentsLoop(data, pos, start, lines, b) ==
    IF AtEOF(data, pos) THEN [done |-> TRUE, panic |-> FALSE, lines |-> <<>>, ok |-> FALSE,
                              pos |-> pos]
    ELSE IF Match(data, pos, b.End)
    THEN [done |-> TRUE, panic |-> FALSE, ok |-> TRUE, pos |-> pos + Len(b.End),
          lines |-> IF pos > start
                    THEN Append(lines, filterSymbols(SubSeq(data, start + 1, pos), b.Escape))
                    ELSE lines]
    ELSE IF data[pos + 1] = "\n"
    THEN MCommentsLoop(data, pos + 1, pos + 1,
                       Append(lines, filterSymbols(SubSeq(data, start + 1, pos + 1), b.Escape)), b)
    ELSE MCommentsLoop(data, pos + 1, start, lines, b)

\* endMComments, lines 136-158.
endMComments(data, pos, b) == MCommentsLoop(data, pos, pos, <<>>, b)

\* The strings of a language: one with an escape, one without.
QuotedString == [Type |-> "String", Begin |-> <<"\"">>, End |-> <<"\"">>, Escape |-> <<"\\">>]
RawString == [Type |-> "String", Begin |-> <<"'">>, End |-> <<"'">>, Escape |-> <<>>]

\* An endString whose escape consumes the Escape token only, not the byte after
\* it.
RECURSIVE StringLoopEscapeAlone(_, _, _)
StringLoopEscapeAlone(data, pos, b) ==
    IF AtEOF(data, pos) THEN [done |-> TRUE, panic |-> FALSE, lines |-> <<>>, ok |-> FALSE,
                              pos |-> pos]
    ELSE IF Len(b.Escape) > 0 /\ Match(data, pos, b.Escape)
    THEN StringLoopEscapeAlone(data, pos + Len(b.Escape), b)
    ELSE IF Match(data, pos, b.End)
    THEN [done |-> TRUE, panic |-> FALSE, lines |-> <<>>, ok |-> TRUE, pos |-> pos + Len(b.End)]
    ELSE StringLoopEscapeAlone(data, pos + 1, b)

\* endString, lines 84-97: the loop, from the byte at pos.  A match moves l.pos
\* past the token; after an Escape token l.pos++ skips one byte more, which may
\* take l.pos one past the end of the buffer.
RECURSIVE StringLoop(_, _, _)
StringLoop(data, pos, b) ==
    IF AtEOF(data, pos) THEN [done |-> TRUE, panic |-> FALSE, lines |-> <<>>, ok |-> FALSE,
                              pos |-> pos]
    ELSE IF Len(b.Escape) > 0 /\ Match(data, pos, b.Escape)
    THEN StringLoop(data, pos + Len(b.Escape) + 1, b)
    ELSE IF Match(data, pos, b.End)
    THEN [done |-> TRUE, panic |-> FALSE, lines |-> <<>>, ok |-> TRUE, pos |-> pos + Len(b.End)]
    ELSE StringLoop(data, pos + 1, b)

\* endString, lines 83-97.
endString(data, pos, b) == StringLoop(data, pos, b)

\* block.EndFunc, lines 66-77.
EndFunc(data, pos, b, skipNL) ==
    IF b.Type = "String" THEN endString(data, pos, b)
    ELSE IF b.Type = "MComment" THEN endMComments(data, pos, b)
    ELSE endSComments(data, pos, b, skipNL)

\* The line, from 1, of the byte at pos.
LineNumber(data, pos) == 1 + Cardinality({j \in 1..pos : data[j] = "\n"})

RECURSIVE JoinLines(_)
JoinLines(lines) == IF lines = <<>> THEN <<>> ELSE Head(lines) \o JoinLines(Tail(lines))

\* The first rule of rules whose BeginFunc matches at pos; 0 when none does.
FirstRule(data, pos, rules) ==
    LET hit == {i \in 1..Len(rules) : Match(data, pos, rules[i].Begin)}
    IN  IF hit = {} THEN 0 ELSE CHOOSE i \in hit : \A j \in hit : i <= j

\* lang.Parse: at each position the rules are tried in order; the block EndFunc
\* gives for the first that matches is kept under the line BeginFunc matched at;
\* with no match the lexer moves one byte on.  found is every block so kept, in
\* order.
RECURSIVE ParseLoop(_, _, _, _, _)
ParseLoop(data, pos, rules, skipNL, found) ==
    IF AtEOF(data, pos) THEN [done |-> TRUE, panic |-> FALSE, found |-> found]
    ELSE IF FirstRule(data, pos, rules) = 0 THEN ParseLoop(data, pos + 1, rules, skipNL, found)
    ELSE LET b == rules[FirstRule(data, pos, rules)]
             from == pos + Len(b.Begin)
             r == EndFunc(data, from, b, skipNL)
         IN  IF r.panic THEN [done |-> TRUE, panic |-> TRUE, found |-> found]
             ELSE IF ~r.ok THEN [done |-> TRUE, panic |-> FALSE, found |-> found]
             ELSE IF r.lines = <<>> THEN ParseLoop(data, r.pos, rules, skipNL, found)
             ELSE ParseLoop(data, r.pos, rules, skipNL,
                            Append(found, [Line |-> LineNumber(data, from),
                                           Data |-> JoinLines(r.lines)]))

\* The result of lang.Parse as parseFile ranges over it (lines 137-142): a map
\* from the line a block begins at to its content, so that a block replaces an
\* earlier one of the same line.
RetOf(found) ==
    [ln \in {found[i].Line : i \in 1..Len(found)} |->
        found[CHOOSE i \in 1..Len(found) :
                 found[i].Line = ln /\ \A j \in (i + 1)..Len(found) : found[j].Line # ln].Data]

\* The source files lang.Parse is called on: sequences of these tokens.
TokSet == {<<"/", "*">>, <<"*", "/">>, <<"a">>, <<" ">>, <<"\n">>}
RECURSIVE ToksOf(_)
ToksOf(n) == IF n = 0 THEN {<<>>} ELSE {t \o d : t \in TokSet, d \in ToksOf(n - 1)}
SourceSet == UNION {ToksOf(n) : n \in 0..MaxToks}

\* lang.Parse and the map parseFile gets from it.
CallLangParse ==
    /\ prog = "call" /\ call.fn = "lang.Parse" /\ ~result.done
    /\ LET r == ParseLoop(call.data, 0, call.rules, FALSE, <<>>)
       IN  result' = [done |-> TRUE, panic |-> r.panic, found |-> r.found,
                      ret |-> RetOf(r.found)]
    /\ UNCHANGED <<nonCallVars, call>>

\* The buffers a Blocker is called on.
DataChars == {"/", "#", "a", " ", "\n"}
DataSet6 == UNION {[1..k -> DataChars] : k \in 0..MaxData}

\* block.EndFunc of a single-line comment, called where BeginFunc matched: l.pos is
\* past the Begin token.
CallEndSComments ==
    /\ prog = "call" /\ call.fn = "endSComments" /\ ~result.done
    /\ result' = endSComments(call.data, call.pos, call.b, call.skipNL)
    /\ UNCHANGED <<nonCallVars, call>>

\* The buffers a string rule is called on.
StrChars == {"\"", "\\", "'", "a"}
StrDataSet == UNION {[1..k -> StrChars] : k \in 0..MaxData}

\* block.EndFunc of a string, called where BeginFunc matched.
CallEndString ==
    /\ prog = "call" /\ call.fn = "endString" /\ ~result.done
    /\ result' = EndFunc(call.data, call.pos, call.b, FALSE)
    /\ UNCHANGED <<nonCallVars, call>>

\* The buffers a multi-line comment rule is called on.
MDataSet == UNION {[1..k -> {"/", "*", "a", "\n"}] : k \in 0..MaxData}

\* block.EndFunc of a multi-line comment, called where BeginFunc matched.
CallEndMComments ==
    /\ prog = "call" /\ call.fn = "endMComments" /\ ~result.done
    /\ result' = EndFunc(call.data, call.pos, call.b, FALSE)
    /\ UNCHANGED <<nonCallVars, call>>

\* ------------------------------------------------------------- package doc
\* The values of doc.Type a request is declared with.
TypeSet == {"None", "Bool", "Object", "Number", "String"}

\* The names of sibling params and the values of enums, none of them empty.
NameSet == {"id", "name"}
SeqsOf(S, n) == UNION {[1..k -> S] : k \in 0..n}

\* What d.DecodeElement leaves in shadow: the fields UnmarshalXML looks at.
RequestSet == [Type : TypeSet, Mimetype : {"", "json"},
               Enums : SeqsOf(NameSet, MaxItems), Items : SeqsOf(NameSet, MaxItems)]

\* The receiver before the call.
ZeroRequest == [Type |-> "", Mimetype |-> "", Enums |-> <<>>, Items |-> <<>>]

\* getDuplicateEnum and getDuplicateItems: a value that occurs twice, "" when none
\* does.
GetDuplicate(vals) ==
    LET dup == {i \in 1..Len(vals) : \E j \in 1..(i - 1) : vals[j] = vals[i]}
    IN  IF dup = {} THEN "" ELSE vals[CHOOSE i \in dup : \A j \in dup : i <= j]

\* newSyntaxError(field + suffix, msg) and fixedSyntaxError.
SyntaxError(field, suffix, msg) == [field |-> <<field, suffix>>, msg |-> msg]
NoSyntaxError == [field |-> <<>>, msg |-> "nil"]

\* A Request.UnmarshalXML that checks the mimetype before the type.
RequestChecksMimetypeFirst(field, shadow) ==
    IF shadow.Mimetype = "" THEN SyntaxError(field, "#mimetype", "ErrRequired")
    ELSE IF shadow.Type = "None" THEN SyntaxError(field, "#type", "ErrRequired")
    ELSE IF shadow.Type = "Object" /\ Len(shadow.Items) = 0
    THEN SyntaxError(field, "/item", "ErrRequired")
    ELSE IF GetDuplicate(shadow.Enums) # "" THEN SyntaxError(field, "/enum", "ErrDuplicateValue")
    ELSE IF GetDuplicate(shadow.Items) # "" THEN SyntaxError(field, "/item", "ErrDuplicateValue")
    ELSE NoSyntaxError

\* Request.UnmarshalXML, lines 42-61: the checks of the decoded request.
RequestChecks(field, shadow) ==
    IF shadow.Type = "None" THEN SyntaxError(field, "#type", "ErrRequired")
    ELSE IF shadow.Type = "Object" /\ Len(shadow.Items) = 0
    THEN SyntaxError(field, "/item", "ErrRequired")
    ELSE IF shadow.Mimetype = "" THEN SyntaxError(field, "#mimetype", "ErrRequired")
    ELSE IF GetDuplicate(shadow.Enums) # "" THEN SyntaxError(field, "/enum", "ErrDuplicateValue")
    ELSE IF GetDuplicate(shadow.Items) # "" THEN SyntaxError(field, "/item", "ErrDuplicateValue")
    ELSE NoSyntaxError

\* Request.UnmarshalXML, lines 35-65: decoded is whether d.DecodeElement succeeds.
\* The receiver is assigned only when every check passes.
RequestUnmarshalXML(r, field, decoded, shadow) ==
    IF ~decoded THEN [done |-> TRUE, err |-> SyntaxError(field, "", "decode"), recv |-> r]
    ELSE IF RequestChecks(field, shadow) # NoSyntaxError
    THEN [done |-> TRUE, err |-> RequestChecks(field, shadow), recv |-> r]
    ELSE [done |-> TRUE, err |-> NoSyntaxError, recv |-> shadow]

CallRequestUnmarshalXML ==
    /\ prog = "call" /\ call.fn = "Request.UnmarshalXML" /\ ~result.done
    /\ result' = RequestUnmarshalXML(ZeroRequest, call.field, call.decoded, call.shadow)
    /\ UNCHANGED <<nonCallVars, call>>

\* SchemaHTTP and SchemaHTTPS, as strings of bytes.
SchemaHTTP == <<"H", "T", "T", "P">>
SchemaHTTPS == <<"H", "T", "T", "P", "S">>

\* strings.ToUpper on the letters a schema is written with; every other byte is
\* left alone.
UpperOf(c) ==
    CASE c = "h" -> "H" [] c = "t" -> "T" [] c = "p" -> "P" [] c = "s" -> "S"
      [] c = "f" -> "F" [] OTHER -> c
\* The comparison of the schema as it was written.
SchemaAsWritten(str) == str
ToUpper(str) == [i \in 1..Len(str) |-> UpperOf(str[i])]

\* The schemas of the callbacks: the two schemas in every letter case, and some
\* that are neither.
LowerOf(c) == CASE c = "H" -> "h" [] c = "T" -> "t" [] c = "P" -> "p" [] c = "S" -> "s"
Casings(word) ==
    {[i \in 1..Len(word) |-> IF low[i] THEN LowerOf(word[i]) ELSE word[i]] :
        low \in [1..Len(word) -> BOOLEAN]}
SchemaSet ==
    Casings(SchemaHTTP) \cup Casings(SchemaHTTPS)
        \cup {<<>>, <<"f", "t", "p">>, <<"H", "T", "T">>, <<"h", "t", "t", "p", "s", "s">>,
               <<"h", "t", "t", "p", " ">>, <<"S", "P", "T", "T", "H">>}

\* What d.DecodeElement leaves in the callback: the method, the schema and the
\* numbers of requests and responses.
CallbackSet == [Method : {"", "GET"}, Schema : SchemaSet,
                Requests : 0..MaxRequests, Responses : 0..MaxRequests]
ZeroCallback == [Method |-> "", Schema |-> <<>>, Requests |-> 0, Responses |-> 0]

\* Callback.UnmarshalXML, lines 44-68. shadow is the receiver itself, so the
\* receiver holds what was decoded whatever is returned; a failed decode leaves
\* any part of it written.
CallbackUnmarshalXML(c, field, decoded, shadow) ==
    IF ~decoded THEN [done |-> TRUE, err |-> SyntaxError(field, "", "decode"), recv |-> shadow]
    ELSE IF shadow.Method = ""
    THEN [done |-> TRUE, err |-> SyntaxError(field, "#method", "ErrRequired"), recv |-> shadow]
    ELSE IF ToUpper(shadow.Schema) # SchemaHTTP /\ ToUpper(shadow.Schema) # SchemaHTTPS
    THEN [done |-> TRUE, err |-> SyntaxError(field, "#schema", "ErrInvalidValue"), recv |-> shadow]
    ELSE IF shadow.Requests = 0
    THEN [done |-> TRUE, err |-> SyntaxError(field, "/request", "ErrRequired"), recv |-> shadow]
    ELSE [done |-> TRUE, err |-> NoSyntaxError, recv |-> shadow]

CallCallbackUnmarshalXML ==
    /\ prog = "call" /\ call.fn = "Callback.UnmarshalXML" /\ ~result.done
    /\ result' = CallbackUnmarshalXML(ZeroCallback, call.field, call.decoded, call.shadow)
    /\ UNCHANGED <<nonCallVars, call>>

\* ------------------------------------------------------------ package mock
\* The params without items: a type, and whether it is an array of it.
LeafParams == [Type : {"None", "Bool", "Number", "String"}, Array : BOOLEAN, Items : {<<>>}]

\* The items of an object: one item that may itself be an object, or two items
\* without items, under different names and in either order.
ItemLists(leaves, sub) ==
    {<<[Name |-> n, Param |-> q]>> : n \in NameSet, q \in sub}
        \cup {<<[Name |-> nn[1], Param |-> q1], [Name |-> nn[2], Param |-> q2]>> :
                 nn \in {pair \in NameSet \X NameSet : pair[1] # pair[2]},
                 q1 \in leaves, q2 \in leaves}

\* The well-formed param trees with at most d objects on a branch.
RECURSIVE ParamsOfDepth(_, _)
ParamsOfDepth(leaves, d) ==
    IF d = 0 THEN leaves
    ELSE leaves \cup [Type : {"Object"}, Array : BOOLEAN,
                      Items : ItemLists(leaves, ParamsOfDepth(leaves, d - 1))]
ParamSet == ParamsOfDepth(LeafParams, MaxDepth)

\* The tokens json.Decoder reads from the bytes of a value: delimiters, and the
\* strings (keys too), numbers, booleans and nulls.
Tok(kind, v) == [kind |-> kind, v |-> v]

\* A synthesized string that is written as the number.
SentinelAllNumbers(type) ==
    CASE type = "Bool" -> Tok("bool", "true")
      [] type = "None" -> Tok("null", "null")
      [] OTHER -> Tok("number", "1024")

\* The literal of each primitive type in jsonTestData: 1024, "1024", true, null.
Sentinel(type) ==
    CASE type = "Number" -> Tok("number", "1024")
      [] type = "String" -> Tok("string", "1024")
      [] type = "Bool" -> Tok("bool", "true")
      [] type = "None" -> Tok("null", "null")

RECURSIVE Repeat(_, _)
Repeat(toks, n) == IF n = 0 THEN <<>> ELSE toks \o Repeat(toks, n - 1)

\* The value synthesized for a param: an array of ArrayLen values of the param
\* without its Array flag, an object of its items in the order they are
\* declared, or the literal of its type.
RECURSIVE BuildParam(_)
RECURSIVE BuildItems(_, _)
BuildItems(items, i) ==
    IF i > Len(items) THEN <<>>
    ELSE <<Tok("string", items[i].Name)>> \o BuildParam(items[i].Param)
             \o BuildItems(items, i + 1)
BuildParam(q) ==
    IF q.Array
    THEN <<Tok("delim", "[")>> \o Repeat(BuildParam([q EXCEPT !.Array = FALSE]), ArrayLen)
             \o <<Tok("delim", "]")>>
    ELSE IF q.Type = "Object"
    THEN <<Tok("delim", "{")>> \o BuildItems(q.Items, 1) \o <<Tok("delim", "}")>>
    ELSE <<Sentinel(q.Type)>>

\* The requests: none (nil), one without type, and one of each param tree.
NilRequest == [Type |-> "nil", Array |-> FALSE, Items |-> <<>>]
EmptyRequest == [Type |-> "", Array |-> FALSE, Items |-> <<>>]
MockRequestSet == {NilRequest, EmptyRequest} \cup ParamSet

\* buildJSON: "null" for no request, nothing for a request without type.
buildJSON(req) ==
    IF req = NilRequest THEN <<Tok("null", "null")>>
    ELSE IF req = EmptyRequest THEN <<>>
    ELSE BuildParam(req)

\* The index in items of the item called name, 0 when there is none.
ItemIndex(items, name) ==
    IF \E i \in 1..Len(items) : items[i].Name = name
    THEN CHOOSE i \in 1..Len(items) : items[i].Name = name
    ELSE 0

\* The trees a path is looked up in: numbers and strings, in objects and arrays
\* of objects.
FindLeaves == [Type : {"Number", "String"}, Array : {FALSE}, Items : {<<>>}]
FindParamSet == ParamsOfDepth(FindLeaves, MaxDepth)

\* The paths: names of items, the empty name and a name no item has.
PathSet == SeqsOf(NameSet \cup {"", "not-exists"}, MaxNames)

\* jsonValidator.find from names[i] on: each name is looked up among the items
\* of the param reached so far, whether or not that param is an array; a name
\* no item has, the empty name included, finds nothing.
RECURSIVE FindFrom(_, _, _)
FindFrom(q, names, i) ==
    IF i > Len(names) THEN [found |-> TRUE, param |-> q]
    ELSE IF ItemIndex(q.Items, names[i]) = 0 THEN [found |-> FALSE]
    ELSE FindFrom(q.Items[ItemIndex(q.Items, names[i])].Param, names, i + 1)
find(param, names) == FindFrom(param, names, 1)

CallFind ==
    /\ prog = "call" /\ call.fn = "find" /\ ~result.done
    /\ result' = [done |-> TRUE, p |-> find(call.param, call.names)]
    /\ UNCHANGED <<nonCallVars, call>>

\* The kind of JSON literal a primitive type is written as.
KindOf(type) ==
    CASE type = "Number" -> "number"
      [] type = "String" -> "string"
      [] type = "Bool" -> "bool"
      [] type = "None" -> "null"

\* Validation of the value that starts at toks[i] against a param: the index
\* after the value, 0 when the value does not fit the param. An array param
\* wants an array whose elements each fit the param without its Array flag; an
\* object param wants an object whose fields are all declared items, each
\* fitting its item; a declared item may be missing; a primitive wants a
\* literal of its type.
RECURSIVE ValidParam(_, _, _)
RECURSIVE ValidElements(_, _, _)
RECURSIVE ValidFields(_, _, _)
ValidElements(q, toks, i) ==
    IF i > Len(toks) THEN 0
    ELSE IF toks[i] = Tok("delim", "]") THEN i + 1
    ELSE LET next == ValidParam(q, toks, i)
         IN  IF next = 0 THEN 0 ELSE ValidElements(q, toks, next)
ValidFields(q, toks, i) ==
    IF i > Len(toks) THEN 0
    ELSE IF toks[i] = Tok("delim", "}") THEN i + 1
    ELSE IF toks[i].kind # "string" \/ ItemIndex(q.Items, toks[i].v) = 0 THEN 0
    ELSE LET next == ValidParam(q.Items[ItemIndex(q.Items, toks[i].v)].Param, toks, i + 1)
         IN  IF next = 0 THEN 0 ELSE ValidFields(q, toks, next)
ValidParam(q, toks, i) ==
    IF i > Len(toks) THEN 0
    ELSE IF q.Array
    THEN IF toks[i] = Tok("delim", "[")
         THEN ValidElements([q EXCEPT !.Array = FALSE], toks, i + 1)
         ELSE 0
    ELSE IF q.Type = "Object"
    THEN IF toks[i] = Tok("delim", "{") THEN ValidFields(q, toks, i + 1) ELSE 0
    ELSE IF toks[i].kind = KindOf(q.Type) THEN i + 1 ELSE 0

\* validJSON: the error, "nil" when the whole of the value fits the request.
validJSON(req, toks) ==
    IF req = NilRequest
    THEN IF toks = <<Tok("null", "null")>> THEN "nil" ELSE "ErrInvalidFormat"
    ELSE IF req = EmptyRequest
    THEN IF toks = <<>> THEN "nil" ELSE "ErrInvalidFormat"
    ELSE IF ValidParam(req, toks, 1) = Len(toks) + 1 THEN "nil" ELSE "ErrInvalidFormat"

\* TestBuildJSON and TestValidJSON on one request: the value is built, then
\* validated against the request it was built from.
CallBuildJSON ==
    /\ prog = "call" /\ call.fn = "buildJSON" /\ ~result.done
    /\ result' = [done |-> TRUE, data |-> buildJSON(call.req),
                  err |-> validJSON(call.req, buildJSON(call.req))]
    /\ UNCHANGED <<nonCallVars, call>>

\* ------------------------------------------------------------- cmd/apidoc
\* What the run finds at a path: whether filepath.Abs gives its absolute path,
\* whether config.Load (config.Write under -d) succeeds on it, and whether the
\* inputs of its configuration parse, and its output renders, without error.
PathOutcomes == [abs : BOOLEAN, cfg : BOOLEAN, run : BOOLEAN]

FlagNames == {"h", "v", "d", "t", "l"}

\* getPaths, lines 148-164: the arguments, "./" when there is none, made
\* absolute; no paths when filepath.Abs fails on one.
getPaths(args, dflt) ==
    LET paths == IF Len(args) = 0 THEN <<dflt>> ELSE args
    IN  IF \E i \in 1..Len(paths) : ~paths[i].abs
        THEN [err |-> TRUE, paths |-> <<>>]
        ELSE [err |-> FALSE, paths |-> paths]

\* h.Error and h.Message.
Msg(type, key, path) == [type |-> type, key |-> key, path |-> path]

\* main, lines 54-85: the first flag set, in the order h, v, t, l, d, decides;
\* without any, parse(false).
Main ==
    /\ prog = "cmd" /\ cmd.pc = "main"
    /\ cmd' =
         IF cmd.flags["h"] THEN [cmd EXCEPT !.pc = "done", !.term = Append(@, "FlagUsage")]
         ELSE IF cmd.flags["v"]
         THEN [cmd EXCEPT !.pc = "done",
                          !.term = @ \o <<"FlagVersionBuildWith", "FlagVersionCommitHash">>]
         ELSE IF cmd.flags["t"] THEN [cmd EXCEPT !.pc = "parse", !.test = TRUE]
         ELSE IF cmd.flags["l"] THEN [cmd EXCEPT !.pc = "done", !.term = Append(@, "Langs")]
         ELSE IF cmd.flags["d"] THEN [cmd EXCEPT !.pc = "detect"]
         ELSE [cmd EXCEPT !.pc = "parse", !.test = FALSE]
    /\ UNCHANGED nonCmdVars

\* detect, lines 87-101: config.Write on each path until one fails.
RECURSIVE DetectFrom(_, _)
DetectFrom(paths, i) ==
    IF i > Len(paths) THEN <<>>
    ELSE IF ~paths[i].cfg THEN <<"err">>
    ELSE <<"ConfigWriteSuccess">> \o DetectFrom(paths, i + 1)
Detect ==
    /\ prog = "cmd" /\ cmd.pc = "detect"
    /\ LET got == getPaths(cmd.args, cmd.dflt)
       IN  cmd' = [cmd EXCEPT !.pc = "done",
                              !.term = IF got.err THEN Append(@, "err")
                                       ELSE @ \o DetectFrom(got.paths, 1)]
    /\ UNCHANGED nonCmdVars

\* parse, lines 104-112: the handler is made and the paths are read; an error
\* of getPaths is reported and parse returns.
ParseGetPaths ==
    /\ prog = "cmd" /\ cmd.pc = "parse"
    /\ LET got == getPaths(cmd.args, cmd.dflt)
       IN  cmd' = IF got.err
                  THEN [cmd EXCEPT !.pc = "done", !.msgs = Append(@, Msg("Erro", "err", 0))]
                  ELSE [cmd EXCEPT !.pc = "paths", !.paths = got.paths, !.index = 1]
    /\ UNCHANGED nonCmdVars

\* apidoc.Do: the inputs are parsed and the documentation is written to the
\* output of the configuration, unless an error stops it.
Do(c, path) ==
    IF ~path.run THEN [c EXCEPT !.msgs = Append(@, Msg("Erro", "err", c.index))]
    ELSE [c EXCEPT !.parsed = @ \cup {c.index}, !.written = @ \cup {c.index},
                   !.msgs = Append(@, Msg("Succ", "Complete", c.index))]

\* input.Parse: the inputs are parsed; nothing is written.
InputParse(c, path) ==
    IF ~path.run THEN [c EXCEPT !.msgs = Append(@, Msg("Erro", "err", c.index))]
    ELSE [c EXCEPT !.parsed = @ \cup {c.index},
                   !.msgs = Append(@, Msg("Succ", "TestSuccess", c.index))]

\* parse, lines 113-135: one round of the loop over the paths.
ParsePath ==
    /\ prog = "cmd" /\ cmd.pc = "paths" /\ cmd.index <= Len(cmd.paths)
    /\ LET path == cmd.paths[cmd.index]
           c == IF ~path.cfg THEN [cmd EXCEPT !.msgs = Append(@, Msg("Erro", "err", cmd.index))]
                ELSE IF cmd.test THEN Do(cmd, path)
                ELSE InputParse(cmd, path)
       IN  cmd' = [c EXCEPT !.index = @ + 1]
    /\ UNCHANGED nonCmdVars

\* parse, line 137: h.Stop() after the last path.
ParseStop ==
    /\ prog = "cmd" /\ cmd.pc = "paths" /\ cmd.index > Len(cmd.paths)
    /\ cmd' = [cmd EXCEPT !.pc = "done"]
    /\ UNCHANGED nonCmdVars

NextCmd == Main \/ Detect \/ ParseGetPaths \/ ParsePath \/ ParseStop

\* ---------------------------------------------------------- specifications
\* Package parser at rest.
ParserIdle ==
    /\ pcP = "idle" /\ precv = 0 /\ pwg = 0 /\ gor = <<>>
    /\ docs = <<>> /\ docObjs = <<>> /\ locker = 0
    /\ syntaxlog = EmptyBag /\ stdoutLines = 0 /\ retP = "none"
    /\ call = NoCall /\ result = NoResult /\ cmd = NoCmd

\* input.Parse before it runs, on the options os and the files fs.
InitInput(os, fs) ==
    /\ prog = "input"
    /\ opts = os /\ files = fs
    /\ pcMain = "start" /\ retErr = NoErr /\ retDoc = "none"
    /\ chanMade = FALSE /\ chan = <<>> /\ closeCount = 0 /\ sendOnClosed = FALSE
    /\ pcCoord = "none" /\ coordNext = 1 /\ coordInOpt = 0 /\ wgScan = 0
    /\ fstate = [p \in DOMAIN fs |-> "none"]
    /\ pending = [p \in DOMAIN fs |-> {}]
    /\ received = EmptyBag /\ bstate = <<>> /\ wgBlk = 0
    /\ doc = [made |-> FALSE, meta |-> {}, apis |-> {}]
    /\ handler = EmptyBag /\ sanitizeCount = 0
    /\ ParserIdle

\* parser.Parse after p is made (lines 255-259), about to range over the channel.
InitParser ==
    /\ prog = "parser"
    /\ opts = <<>> /\ files = <<>>
    /\ pcMain = "idle" /\ retErr = NoErr /\ retDoc = "none"
    /\ chanMade = FALSE /\ chan = <<>> /\ closeCount = 0 /\ sendOnClosed = FALSE
    /\ pcCoord = "none" /\ coordNext = 1 /\ coordInOpt = 0 /\ wgScan = 0
    /\ fstate = <<>> /\ pending = <<>>
    /\ received = EmptyBag /\ bstate = <<>> /\ wgBlk = 0
    /\ doc = [made |-> FALSE, meta |-> {}, apis |-> {}]
    /\ handler = EmptyBag /\ sanitizeCount = 0
    /\ pcP = "range" /\ precv = 0 /\ pwg = 0 /\ gor = <<>>
    /\ docs = <<>> /\ docObjs = <<>> /\ locker = 0
    /\ syntaxlog = EmptyBag /\ stdoutLines = 0 /\ retP = "none"
    /\ call = NoCall /\ result = NoResult /\ cmd = NoCmd

\* The extraction pipeline: any options, any files, every block an API block.
Init ==
    \E os \in OptsSet :
       \E fs \in {f \in [1..SumN(os) -> FileSet({APIBlock})] : TotalBlocks(f, SumN(os)) <= MaxBlocks} :
          InitInput(os, fs)

Next == NextInput

Spec == Init /\ [][Next]_vars

\* The builders: input.Parse on one file whose blocks hold any content, or
\* parser.Parse on any blocks.
InitBuilder ==
    \/ \E ret \in RetSet(DataSet) :
          InitInput(<<[kind |-> "opt", ok |-> TRUE, n |-> 1]>>, <<[ok |-> TRUE, ret |-> ret]>>)
    \/ InitParser

NextBuilder == NextInput \/ NextParser

SpecBuilder == InitBuilder /\ [][NextBuilder]_vars

\* input.Parse on one file of more blocks than the channel holds, at the point
\* where the file's goroutine has sent the first sent of them, in the order of
\* their lines, and Parse has not received any yet: buildBlock's goroutine is at
\* wg.Wait() and Parse at the range over the channel.
InitBacklog ==
    /\ prog = "input"
    /\ opts = <<>>
    /\ \E extra \in 1..MaxBlocks, sent \in {ChanCap - 1, ChanCap} :
          /\ files = <<[ok |-> TRUE, ret |-> [l \in 1..(ChanCap + extra) |-> APIBlock]]>>
          /\ chan = [l \in 1..sent |-> Block(1, l)]
          /\ pending = <<(sent + 1)..(ChanCap + extra)>>
    /\ pcMain = "range" /\ retErr = NoErr /\ retDoc = "none"
    /\ chanMade = TRUE /\ closeCount = 0 /\ sendOnClosed = FALSE
    /\ pcCoord = "spawn" /\ coordNext = 2 /\ coordInOpt = 0 /\ wgScan = 1
    /\ fstate = <<"send">>
    /\ received = EmptyBag /\ bstate = <<>> /\ wgBlk = 0
    /\ doc = [made |-> TRUE, meta |-> {}, apis |-> {}]
    /\ handler = EmptyBag /\ sanitizeCount = 0
    /\ ParserIdle

InitQueue == Init \/ InitBacklog

\* The steps of input.Parse, followed until Parse has received MaxBlocks blocks.
NextQueue ==
    \/ ParseStart
    \/ CoordSpawn
    \/ CoordNextOpt
    \/ CoordWaitClose
    \/ \E p \in AllPaths : ReadFile(p)
    \/ \E p \in AllPaths : \E l \in pending[p] : SendBlock(p, l)
    \/ BagCardinality(received) < MaxBlocks /\ MainRecv
    \/ MainRangeEnd
    \/ MainWaitSanitize
    \/ \E b \in DOMAIN bstate : ParseBlock(b)

SpecQueue == InitQueue /\ [][NextQueue]_vars

\* Fair scheduling: a goroutine that can take its next step is not left waiting
\* for ever.
FairQueue ==
    /\ WF_vars(ParseStart)
    /\ WF_vars(CoordSpawn)
    /\ WF_vars(CoordNextOpt)
    /\ WF_vars(CoordWaitClose)
    /\ WF_vars(\E p \in AllPaths : ReadFile(p))
    /\ WF_vars(\E p \in AllPaths : \E l \in pending[p] : SendBlock(p, l))
    /\ WF_vars(BagCardinality(received) < MaxBlocks /\ MainRecv)
    /\ WF_vars(MainRangeEnd)
    /\ WF_vars(MainWaitSanitize)
    /\ WF_vars(\E b \in DOMAIN bstate : ParseBlock(b))

SpecQueueFair == SpecQueue /\ FairQueue

\* Packages input and parser at rest.
PipelineIdle ==
    /\ opts = <<>> /\ files = <<>>
    /\ pcMain = "idle" /\ retErr = NoErr /\ retDoc = "none"
    /\ chanMade = FALSE /\ chan = <<>> /\ closeCount = 0 /\ sendOnClosed = FALSE
    /\ pcCoord = "none" /\ coordNext = 1 /\ coordInOpt = 0 /\ wgScan = 0
    /\ fstate = <<>> /\ pending = <<>>
    /\ received = EmptyBag /\ bstate = <<>> /\ wgBlk = 0
    /\ doc = [made |-> FALSE, meta |-> {}, apis |-> {}]
    /\ handler = EmptyBag /\ sanitizeCount = 0
    /\ pcP = "idle" /\ precv = 0 /\ pwg = 0 /\ gor = <<>>
    /\ docs = <<>> /\ docObjs = <<>> /\ locker = 0
    /\ syntaxlog = EmptyBag /\ stdoutLines = 0 /\ retP = "none"

\* The calls of the functions of package lang: filterSymbols on any line and
\* charset, EndFunc of a single-line comment wherever its BeginFunc matched.
LangCall ==
    \/ \E l \in LineSet, c \in CharsetSet :
          call = [fn |-> "filterSymbols", line |-> l, charset |-> c]
    \/ \E d \in DataSet6, b \in {SlashComment, HashComment}, nl \in BOOLEAN :
          \E at \in 0..Len(d) :
             /\ Match(d, at, b.Begin)
             /\ call = [fn |-> "endSComments", data |-> d, pos |-> at + Len(b.Begin),
                        b |-> b, skipNL |-> nl]
    \/ \E d \in SourceSet : call = [fn |-> "lang.Parse", data |-> d, rules |-> <<CComment>>]
    \/ \E d \in StrDataSet, b \in {QuotedString, RawString} :
          \E at \in 0..Len(d) :
             /\ Match(d, at, b.Begin)
             /\ call = [fn |-> "endString", data |-> d, pos |-> at + Len(b.Begin), b |-> b]
    \/ \E d \in MDataSet :
          \E at \in 0..Len(d) :
             /\ Match(d, at, CComment.Begin)
             /\ call = [fn |-> "endMComments", data |-> d, pos |-> at + Len(CComment.Begin),
                        b |-> CComment]

\* The calls of the functions of package doc.
DocCall ==
    \/ \E sh \in RequestSet, ok \in BOOLEAN, name \in {"/request", "/response"} :
          call = [fn |-> "Request.UnmarshalXML", field |-> name, decoded |-> ok, shadow |-> sh]
    \/ \E sh \in CallbackSet, ok \in BOOLEAN :
          call = [fn |-> "Callback.UnmarshalXML", field |-> "/callback", decoded |-> ok,
                  shadow |-> sh]

\* The calls of the functions of package mock.
MockCall ==
    \/ \E req \in MockRequestSet : call = [fn |-> "buildJSON", req |-> req]
    \/ \E q \in FindParamSet, names \in PathSet :
          call = [fn |-> "find", param |-> q, names |-> names]

\* One function called on its own, on any of its arguments.
InitCall ==
    /\ prog = "call"
    /\ PipelineIdle
    /\ LangCall \/ DocCall \/ MockCall
    /\ cmd = NoCmd
    /\ result = NoResult

NextCall ==
    \/ CallFilterSymbols
    \/ CallEndSComments
    \/ CallLangParse
    \/ CallEndString
    \/ CallEndMComments
    \/ CallRequestUnmarshalXML
    \/ CallCallbackUnmarshalXML
    \/ CallBuildJSON
    \/ CallFind

SpecCall == InitCall /\ [][NextCall]_vars

\* The apidoc command, with any flags and any paths on its command line.
InitCmd ==
    /\ prog = "cmd"
    /\ PipelineIdle
    /\ call = NoCall /\ result = NoResult
    /\ \E fl \in [FlagNames -> BOOLEAN], as \in SeqsOf(PathOutcomes, MaxPaths),
          df \in PathOutcomes :
          /\ Len(as) > 0 => df = [abs |-> TRUE, cfg |-> TRUE, run |-> TRUE]
          /\ cmd = [pc |-> "main", flags |-> fl, args |-> as, dflt |-> df, test |-> FALSE,
                    paths |-> <<>>, index |-> 0, msgs |-> <<>>, written |-> {},
                    parsed |-> {}, term |-> <<>>]

SpecCmd == InitCmd /\ [][NextCmd]_vars

\* -------------------------------------------------------------- properties
InChan(b) == Cardinality({i \in 1..Len(chan) : chan[i] = b})
Readable == {p \in AllPaths : files[p].ok}
Unreadable == AllPaths \ Readable
ValidOpt(o) == o.kind = "opt" /\ o.ok
InvalidOpts(os) == Len(os) = 0 \/ \E i \in 1..Len(os) : ~ValidOpt(os[i])

\* Parse returned before buildBlock did anything.
NothingStarted ==
    /\ retDoc = "nil" /\ ~doc.made
    /\ ~chanMade /\ chan = <<>> /\ closeCount = 0
    /\ pcCoord = "none" /\ wgScan = 0
    /\ \A p \in AllPaths : fstate[p] = "none" /\ pending[p] = {}
    /\ received = EmptyBag /\ bstate = <<>> /\ wgBlk = 0
    /\ handler = EmptyBag /\ sanitizeCount = 0

\* The Field of the error: "opt" for no option, "opt[i]" for a nil option i,
\* "opt[i]." and the option's own field for an option i whose Sanitize fails; i is
\* the first option that is not valid, counted from 0.
FieldOfFirstBad ==
    \/ opts = <<>> /\ retErr = <<"o", "p", "t">>
    \/ \E i \in 1..Len(opts) :
          /\ \A j \in 1..(i - 1) : ValidOpt(opts[j])
          /\ \/ opts[i].kind = "nil" /\ retErr = OptField(i - 1)
             \/ /\ opts[i].kind = "opt" /\ ~opts[i].ok
                /\ HasPrefix(retErr, OptField(i - 1) \o <<".">>)
                /\ Len(retErr) > Len(OptField(i - 1)) + 1

\* C1, as the code has it: input.Parse called with no option, with a nil option or
\* with an option whose Sanitize fails returns an error and a nil result before any
\* work starts (no channel, no scan goroutine, no file read, nothing reported), and
\* it returns an error only then; the error's field is "opt" for no option,
\* "opt[i]" for a nil option and "opt[i]."-prefixed for a failing Sanitize.
C1_InvalidOptsFailEarly ==
    /\ [](pcMain = "failed" => NothingStarted /\ FieldOfFirstBad)
    /\ [][pcMain = "start" /\ pcMain' # "start"
            => (pcMain' = "failed") = InvalidOpts(opts)]_vars

\* A nil second option after a first option that holds a path: the error is "opt[1]".
C1_Witness ==
    /\ pcMain = "failed" /\ Len(opts) = 2
    /\ ValidOpt(opts[1]) /\ opts[1].n > 0 /\ opts[2].kind = "nil"
    /\ retErr = <<"o", "p", "t", "[", "1", "]">>

\* C1 as stated: the field of every such error is "opt" or begins with "opt[i].".
C1_AsStated ==
    pcMain = "failed" =>
        /\ NothingStarted
        /\ \/ retErr = <<"o", "p", "t">>
           \/ \E i \in 0..(Len(opts) - 1) : HasPrefix(retErr, OptField(i) \o <<".">>)

\* C2: for every interleaving the channel is closed once, only after every
\* parseFile goroutine of every option has returned, and no block is sent on the
\* closed channel.
C2_CloseOnceAfterScans ==
    /\ closeCount <= 1
    /\ ~sendOnClosed
    /\ closeCount = 1 =>
          /\ opts = <<>> /\ wgScan = 0
          /\ \A p \in AllPaths : fstate[p] = "done" /\ pending[p] = {}

\* The channel closed after the scans of two files that sent a block each.
C2_Witness ==
    /\ closeCount = 1 /\ Cardinality(Readable) = 2
    /\ \A p \in AllPaths : files[p].ret # <<>>
    /\ BagCardinality(received) + Len(chan) = 2

\* C3: the final Sanitize runs once, only after the channel is closed and drained
\* and every parseBlock goroutine has finished; none runs at or after the pass.
C3_SanitizeOnceAfterBlocks ==
    /\ sanitizeCount <= 1
    /\ prog = "input" => ((pcMain = "done") = (sanitizeCount = 1))
    /\ sanitizeCount = 1 =>
          /\ closeCount = 1 /\ chan = <<>> /\ wgBlk = 0
          /\ DOMAIN bstate = BagToSet(received)
          /\ \A b \in DOMAIN bstate : bstate[b] = "done"

\* The pass ran after two parseBlock goroutines.
C3_Witness == sanitizeCount = 1 /\ Cardinality(DOMAIN bstate) = 2

\* C4: whatever the interleaving, each block a file scan produces is, from the
\* moment the file is read, in exactly one place (not yet sent, in the channel,
\* received), is received at most once, and has been received exactly once when
\* the range over the channel has ended.
C4_EachBlockOnce ==
    /\ \A b \in BagToSet(received) : b \in Produced /\ CopiesIn(b, received) = 1
    /\ \A p \in Readable : fstate[p] \in {"send", "done"} =>
          \A b \in BlocksOf(p) :
             (IF b.Line \in pending[p] THEN 1 ELSE 0) + InChan(b) + CopiesIn(b, received) = 1
    /\ pcMain \in {"wait", "done"} => received = SetToBag(Produced)

\* Two files of one block each, both blocks received.
C4_Witness ==
    /\ pcMain = "done" /\ BagCardinality(received) = 2
    /\ \E b1, b2 \in BagToSet(received) : b1.File # b2.File

\* C5 as stated: parseFile sends the blocks of a file in the order of their lines.
C5_SendsInLineOrder ==
    [][\A p \in AllPaths :
          fstate[p] = "send" /\ pending'[p] # pending[p]
             => \A sent \in pending[p] \ pending'[p] : \A l \in pending'[p] : sent < l]_vars

Finished == {b \in DOMAIN bstate : bstate[b] = "done"}
Returned == {g \in Goroutines : gor[g].pc = "done"}
InDoc(b) == BlockId(b) \in doc.meta \cup doc.apis
EntriesOf(g) == {e \in UNION {docObjs[i].apis \cup docObjs[i].infos : i \in 1..Len(docObjs)} :
                    e.id = BlockId(gor[g].block)}
APIsOf(g) == {e \in UNION {docObjs[i].apis : i \in 1..Len(docObjs)} :
                 e.id = BlockId(gor[g].block)}
InfosOf(g) == {e \in UNION {docObjs[i].infos : i \in 1..Len(docObjs)} :
                  e.id = BlockId(gor[g].block)}
Logged(g) == CopiesIn([file |-> gor[g].block.File, line |-> gor[g].block.Line], syntaxlog)

\* C6 as stated: a block that starts with neither marker is ignored by
\* input.parseBlock and by parser.parse: the Document stays as it is and nothing
\* about the block is handed to the handler or printed to the log.
C6_UnmarkedBlockIgnored ==
    /\ \A b \in Finished :
          ~HasPrefix(b.Data, apidocBegin) /\ ~HasPrefix(b.Data, apiBegin) =>
             /\ ~InDoc(b)
             /\ \A r \in BagToSet(handler) : ~(r.file = b.File /\ r.line = b.Line)
    /\ \A g \in Returned :
          ~HasPrefix(gor[g].block.Data, apiPrefix)
             /\ ~HasPrefix(gor[g].block.Data, apiDocPrefix) =>
                EntriesOf(g) = {} /\ Logged(g) = 0

InGetDoc == {g \in Goroutines : gor[g].pc = "create"}
GotDoc == {g \in Goroutines : gor[g].pc \in {"entry", "done"} /\ gor[g].d # 0}

\* C10: for every interleaving of getDoc calls at most one goroutine is between
\* Lock and Unlock, at most one document is ever made for a group name, every call
\* for a group gets the document stored under that name, and the empty name
\* stands for the default group.
C10_GetDocSerialized ==
    /\ Cardinality(InGetDoc) <= 1
    /\ \A i, j \in 1..Len(docObjs) : docObjs[i].group = docObjs[j].group => i = j
    /\ \A g \in GotDoc :
          /\ gor[g].d \in 1..Len(docObjs)
          /\ docObjs[gor[g].d].group = (IF gor[g].group = "" THEN DefaultGroupName ELSE gor[g].group)
          /\ gor[g].d = docs[docObjs[gor[g].d].group]
    /\ \A g, h \in GotDoc : gor[g].key = gor[h].key => gor[g].d = gor[h].d

\* Two calls, one with the empty name and one with the default name, got the one
\* document made for the default group.
C10_Witness ==
    \E g, h \in GotDoc :
       /\ gor[g].group = "" /\ gor[h].group = DefaultGroupName
       /\ gor[g].d = gor[h].d /\ Len(docObjs) = 1

\* The first byte of line that is not a space other than a newline; 0 when none.
FirstSolid(line) ==
    LET solid == {i \in 1..Len(line) : ~(IsSpace(line[i]) /\ line[i] # "\n")}
    IN  IF solid = {} THEN 0 ELSE CHOOSE i \in solid : \A j \in solid : i <= j

\* C14, as the code has it: filterSymbols returns the line unchanged when the
\* charset is empty, when the line holds only spaces, when its first byte after the
\* leading spaces is not in the charset, and when that byte is in the charset but
\* is not followed by a space; when it is followed by a newline the result is
\* "\n"; when it is followed by another space the result is the line from that
\* space on: the leading spaces and the symbol are dropped, the space is kept.
C14_FilterSymbolsAsCoded ==
    result.done /\ call.fn = "filterSymbols" =>
        LET line == call.line
            at == FirstSolid(line)
        IN  IF call.charset = <<>> \/ at = 0 THEN result.line = line
            ELSE IF ~InCharset(call.charset, line[at]) THEN result.line = line
            ELSE IF at = Len(line) \/ ~IsSpace(line[at + 1]) THEN result.line = line
            ELSE IF line[at + 1] = "\n" THEN result.line = <<"\n">>
            ELSE result.line = SubSeq(line, at + 1, Len(line))

\* " * a" with the charset "*" gives " a".
C14_Witness ==
    /\ result.done /\ call.fn = "filterSymbols"
    /\ call.line = <<" ", "*", " ", "a">> /\ call.charset = <<"*">>
    /\ result.line = <<" ", "a">>

\* C14 as stated: a first byte after the leading spaces that is in the charset is
\* dropped, and so is a space after it (a newline after it leaves "\n"); nothing
\* else is removed, but for the leading spaces, which the statement leaves open.
C14_AsStated ==
    result.done /\ call.fn = "filterSymbols" =>
        LET line == call.line
            at == FirstSolid(line)
        IN  IF call.charset = <<>> \/ at = 0 THEN result.line = line
            ELSE IF ~InCharset(call.charset, line[at]) THEN result.line = line
            ELSE IF at < Len(line) /\ line[at + 1] = "\n" THEN result.line = <<"\n">>
            ELSE LET rest == IF at < Len(line) /\ IsSpace(line[at + 1])
                             THEN SubSeq(line, at + 2, Len(line))
                             ELSE SubSeq(line, at + 1, Len(line))
                 IN  result.line \in {rest, SubSeq(line, 1, at - 1) \o rest}

IsSkipped(c, skipNL) == IsSpace(c) /\ (skipNL \/ c # "\n")

\* Where the spaces that follow position e end.
AfterSpaces(data, e, skipNL) ==
    CHOOSE k \in e..Len(data) :
       /\ \A j \in (e + 1)..k : IsSkipped(data[j], skipNL)
       /\ k = Len(data) \/ ~IsSkipped(data[k + 1], skipNL)

\* lines[i], lines[i + 1], ... are the comment lines of data from off on: each is
\* the text after a Begin token up to its newline or the end of the buffer; after
\* every line but the last come only spaces and the same Begin token; after the
\* last comes the end of the buffer or something other than that Begin token.
RECURSIVE MergedFrom(_, _, _, _, _, _)
MergedFrom(data, off, lines, i, b, skipNL) ==
    LET l == lines[i]
        e == off + Len(l)
        next == AfterSpaces(data, e, skipNL)
    IN  /\ Len(l) >= 1 /\ e <= Len(data)
        /\ l = SubSeq(data, off + 1, e)
        /\ \A j \in 1..(Len(l) - 1) : l[j] # "\n"
        /\ IF i = Len(lines)
           THEN e = Len(data) \/ (l[Len(l)] = "\n" /\ ~Match(data, next, b.Begin))
           ELSE /\ l[Len(l)] = "\n" /\ e < Len(data)
                /\ Match(data, next, b.Begin)
                /\ MergedFrom(data, next + Len(b.Begin), lines, i + 1, b, skipNL)

\* Where the last of the comment lines from off on ends.
RECURSIVE LastEnd(_, _, _, _, _, _)
LastEnd(data, off, lines, i, b, skipNL) ==
    IF i = Len(lines) THEN off + Len(lines[i])
    ELSE LastEnd(data, AfterSpaces(data, off + Len(lines[i]), skipNL) + Len(b.Begin),
                 lines, i + 1, b, skipNL)

\* C11: when EndFunc of a single-line comment returns, its block is the run of
\* adjacent comments of that style: the lines, in source order and without their
\* Begin tokens, of the comments that follow one another with only spaces between
\* a line's end and the next Begin token; the run ends before non-comment text
\* and before a comment of another style, which the lexer has not gone past.
C11_AdjacentCommentsMerge ==
    result.done /\ call.fn = "endSComments" /\ ~result.panic =>
        /\ result.ok /\ Len(result.lines) >= 1
        /\ MergedFrom(call.data, call.pos, result.lines, 1, call.b, call.skipNL)
        /\ LET e == LastEnd(call.data, call.pos, result.lines, 1, call.b, call.skipNL)
           IN  /\ e - 1 <= result.pos
               /\ result.pos <= AfterSpaces(call.data, e, call.skipNL)

\* "#a", newline, " #a": one block of the two lines "a\n" and "a".
C11_Witness ==
    /\ result.done /\ call.fn = "endSComments"
    /\ call.data = <<"#", "a", "\n", " ", "#", "a">> /\ call.pos = 1
    /\ ~result.panic /\ result.lines = <<<<"a", "\n">>, <<"a">>>>

\* C12 as stated: EndFunc of a single-line comment returns, with its lines found,
\* wherever BeginFunc matched, the end of the buffer included.
C12_SCommentsAlwaysSucceeds ==
    result.done /\ call.fn = "endSComments" =>
        ~result.panic /\ result.ok /\ Len(result.lines) >= 1

\* C13 as stated: every multi-line comment EndFunc finds, which ends at the first
\* End token, is a block of its own in the extraction output, two comments of
\* one line included.
C13_EachCommentItsOwnBlock ==
    result.done /\ call.fn = "lang.Parse" =>
        /\ Cardinality(DOMAIN result.ret) = Len(result.found)
        /\ \A i \in 1..Len(result.found) :
              ~\E j \in 1..(Len(result.found[i].Data) - 1) :
                  SubSeq(result.found[i].Data, j, j + 1) = <<"*", "/">>

HasDuplicate(vals) == \E i, j \in 1..Len(vals) : i # j /\ vals[i] = vals[j]

\* C15: Request.UnmarshalXML accepts a decoded request iff its type is not None,
\* it is not an Object without items, its mimetype is not empty, no two enums
\* share a value and no two items share a name; otherwise it returns the one
\* error of the first of these that fails, in this order.
C15_RequestFirstViolation ==
    result.done /\ call.fn = "Request.UnmarshalXML" /\ call.decoded =>
        LET sh == call.shadow
            bad == <<sh.Type = "None",
                     sh.Type = "Object" /\ sh.Items = <<>>,
                     sh.Mimetype = "",
                     HasDuplicate(sh.Enums),
                     HasDuplicate(sh.Items)>>
            errs == <<SyntaxError(call.field, "#type", "ErrRequired"),
                      SyntaxError(call.field, "/item", "ErrRequired"),
                      SyntaxError(call.field, "#mimetype", "ErrRequired"),
                      SyntaxError(call.field, "/enum", "ErrDuplicateValue"),
                      SyntaxError(call.field, "/item", "ErrDuplicateValue")>>
        IN  /\ (result.err = NoSyntaxError) = (\A k \in 1..5 : ~bad[k])
            /\ \A k \in 1..5 : bad[k] /\ (\A j \in 1..(k - 1) : ~bad[j]) => result.err = errs[k]
            /\ result.err = NoSyntaxError => result.recv = sh

\* A request without type, without mimetype and with two enums of one value: the
\* error is the type's.
C15_Witness ==
    /\ result.done /\ call.fn = "Request.UnmarshalXML" /\ call.decoded
    /\ call.shadow.Type = "None" /\ call.shadow.Mimetype = ""
    /\ call.shadow.Enums = <<"id", "id">>
    /\ result.err = SyntaxError(call.field, "#type", "ErrRequired")

\* The schema is word up to the case of its letters.
SameLetters(str, word) ==
    /\ Len(str) = Len(word)
    /\ \A i \in 1..Len(word) : str[i] = word[i] \/ str[i] = LowerOf(word[i])

C17_BuiltValueIsValid ==
    result.done /\ call.fn = "buildJSON" => result.err = "nil"

\* An array of objects with an item that is an array of strings: the value built
\* has ArrayLen objects of ArrayLen strings each, and is valid.
C17_Witness ==
    /\ result.done /\ call.fn = "buildJSON" /\ result.err = "nil"
    /\ call.req.Type = "Object" /\ call.req.Array
    /\ Len(call.req.Items) = 1
    /\ call.req.Items[1].Param = [Type |-> "String", Array |-> TRUE, Items |-> <<>>]
    /\ Len(result.data) = 2 + ArrayLen * (2 + 1 + 2 + ArrayLen)

\* C18 as stated: a path whose segments are all empty, like a path without
\* segments, resolves to the root of the tree.
C18_AllEmptyPathIsRoot ==
    result.done /\ call.fn = "find" /\ (\A i \in 1..Len(call.names) : call.names[i] = "") =>
        result.p = [found |-> TRUE, param |-> call.param]

\* C19 as stated: nothing in the core writes to standard output; every message
\* goes to the handler or to the loggers the caller passed in.
C19_StdoutUntouched == stdoutLines = 0

\* C20 as stated: under -t (test = true) every path is only parsed, nothing is
\* written and each success is reported as TestSuccess; without it (test =
\* false) every path that succeeds has its documentation written and is
\* reported as Complete.
C20_TestFlagOnlyChecks ==
    prog = "cmd" /\ cmd.pc \in {"paths", "done"} =>
        /\ cmd.test =>
              /\ cmd.written = {}
              /\ \A k \in 1..Len(cmd.msgs) :
                    cmd.msgs[k].type = "Succ" => cmd.msgs[k].key = "TestSuccess"
        /\ ~cmd.test =>
              /\ cmd.written = cmd.parsed
              /\ \A k \in 1..Len(cmd.msgs) :
                    cmd.msgs[k].type = "Succ" => cmd.msgs[k].key = "Complete"

\* C21: the channel never buffers more than its capacity of 500 blocks; a
\* goroutine that has a block to send cannot send it while the channel is full,
\* and Parse can neither receive nor leave its range while the channel is empty
\* and open.
C21_QueueBounded ==
    /\ Len(chan) <= ChanCap
    /\ Len(chan) = ChanCap /\ closeCount = 0 =>
           ~ENABLED (\E p \in AllPaths : \E l \in pending[p] : SendBlock(p, l))
    /\ pcMain = "range" /\ chan = <<>> /\ closeCount = 0 =>
           ~ENABLED MainRecv /\ ~ENABLED MainRangeEnd

\* Parse has received a block, the file's goroutine has filled the channel again
\* and has blocks left to send.
C21_Witness ==
    /\ Len(chan) = ChanCap /\ closeCount = 0
    /\ BagCardinality(received) > 0
    /\ \E p \in AllPaths : fstate[p] = "send" /\ pending[p] # {}

ScansOver == closeCount = 1 /\ \A p \in AllPaths : fstate[p] = "done"
ParseReturned ==
    /\ ScansOver /\ chan = <<>> /\ pcMain = "done" /\ retDoc = "doc"
    /\ received = SetToBag(Produced)
    /\ \A b \in DOMAIN bstate : bstate[b] = "done"

C23_OnlyNewlineHandedBack ==
    result.done /\ call.fn = "endSComments" /\ ~result.panic =>
        /\ result.pos + 1 = LastEnd(call.data, call.pos, result.lines, 1, call.b, call.skipNL)
        /\ call.data[result.pos + 1] = "\n"

\* Whether the byte at p, at or after from, follows an odd run of Escape bytes
\* that begins at or after from.
RECURSIVE EscapeRun(_, _, _, _)
EscapeRun(data, from, p, esc) ==
    IF p > from /\ data[p] = esc THEN 1 + EscapeRun(data, from, p - 1, esc) ELSE 0
Escaped(data, from, p, b) ==
    Len(b.Escape) > 0 /\ EscapeRun(data, from, p, b.Escape[1]) % 2 = 1

\* C24: EndFunc of a string succeeds iff an End token that no escape consumes
\* occurs before the end of the buffer; the cursor is then just past the first
\* such token; found or not, no content is returned.
C24_StringEndsAtUnescapedEnd ==
    result.done /\ call.fn = "endString" =>
        LET ends == {p \in call.pos..(Len(call.data) - 1) :
                        /\ call.data[p + 1] = call.b.End[1]
                        /\ ~(Len(call.b.Escape) > 0 /\ call.data[p + 1] = call.b.Escape[1])
                        /\ ~Escaped(call.data, call.pos, p, call.b)}
        IN  /\ ~result.panic /\ result.lines = <<>>
            /\ result.ok = (ends # {})
            /\ result.ok => result.pos - 1 \in ends /\ \A p \in ends : result.pos - 1 <= p

\* In \"a" the End token after the escape does not end the string; the one after
\* the a does.
C24_Witness ==
    /\ result.done /\ call.fn = "endString"
    /\ call.data = <<"\"", "\\", "\"", "a", "\"">> /\ call.pos = 1
    /\ result.ok /\ result.pos = 5

Max(S) == CHOOSE x \in S : \A y \in S : y <= x
Min(S) == CHOOSE x \in S : \A y \in S : x <= y

\* C25: EndFunc of a multi-line comment fails, with no line at all, when no End
\* token follows before the end of the buffer; otherwise its lines are the text
\* up to the first End token cut after each newline, each piece filtered, with
\* the piece before the End token present only when it is not empty.
C25_MCommentLines ==
    result.done /\ call.fn = "endMComments" =>
        LET data == call.data
            ends == {p \in call.pos..Len(data) : Match(data, p, call.b.End)}
            end == Min(ends)
            nls == {p \in call.pos..(end - 1) : data[p + 1] = "\n"}
            last == IF nls = {} THEN call.pos ELSE Max(nls) + 1
            before(p) == {q \in nls : q < p}
        IN  /\ ~result.panic
            /\ result.ok = (ends # {})
            /\ ~result.ok => result.lines = <<>>
            /\ result.ok =>
                  /\ result.pos = end + Len(call.b.End)
                  /\ Len(result.lines) = Cardinality(nls) + (IF last < end THEN 1 ELSE 0)
                  /\ \A p \in nls :
                        result.lines[Cardinality(before(p)) + 1] =
                            filterSymbols(SubSeq(data, (IF before(p) = {} THEN call.pos
                                                        ELSE Max(before(p)) + 1) + 1, p + 1),
                                          call.b.Escape)
                  /\ last < end =>
                        result.lines[Len(result.lines)] =
                            filterSymbols(SubSeq(data, last + 1, end), call.b.Escape)

\* A comment of the one line "a" and a newline, with nothing between the
\* newline and the End token: one line, no empty one after it.
C25_Witness ==
    /\ result.done /\ call.fn = "endMComments"
    /\ call.data = <<"/", "*", "a", "\n", "*", "/">> /\ call.pos = 2
    /\ result.ok /\ result.lines = <<<<"a", "\n">>>>

\* C26 as stated: whatever rule's EndFunc is called where its BeginFunc matched,
\* it reads no byte at or past the end of the buffer and leaves the cursor within
\* 0..len(data).
C26_CursorInBuffer ==
    result.done /\ call.fn \in {"endString", "endSComments", "endMComments"} =>
        /\ ~result.panic
        /\ 0 <= result.pos /\ result.pos <= Len(call.data)

\* C27 as stated: when Request.UnmarshalXML or Callback.UnmarshalXML returns an
\* error, the receiver holds the value it held before the call.
C27_ReceiverKeptOnError ==
    /\ result.done /\ call.fn = "Request.UnmarshalXML" /\ result.err # NoSyntaxError =>
           result.recv = ZeroRequest
    /\ result.done /\ call.fn = "Callback.UnmarshalXML" /\ result.err # NoSyntaxError =>
           result.recv = ZeroCallback

====
